---- MODULE Spec2Model ----
(***************************************************************************)
(* Resilient remote-data access of the FPL dashboard:                      *)
(* utils/error_recovery.py (CircuitBreaker, RetryStrategy,                 *)
(* EnhancedErrorRecovery).  Threads issue resilient_call on one shared     *)
(* registry; every block the code runs under the breaker's RLock is one    *)
(* atomic step, everything else interleaves.                               *)
(***************************************************************************)
EXTENDS Integers, Sequences, FiniteSets, TLC

(* ------------------------------ bounds -------------------------------- *)
(* Protected calls one thread may make in all: among concurrent callers,   *)
(* and alone.  A resilient_call begins only if its whole retry loop fits.  *)
MaxRequests == 3
MaxRequestsSeq == 6
(* Requests to the caches and clear_all_caches calls made in all. *)
MaxCacheRequests == 3
(* The clock stops at MaxTime. *)
MaxTime == 2
(* Failure and success thresholds the callers configure: 1..MaxThreshold. *)
MaxThreshold == 2

Threads == {1, 2}
MainThread == CHOOSE t \in Threads : \A u \in Threads : t <= u
Services == {"fpl_api", "understat"}
RecoveryTimeouts == {1, 2}
CallTimeouts == {1}
StrategyNames == {"api_calls", "critical_operations"}
(* The strategies RetryStrategy.execute is run with on its own, and the     *)
(* values random.random() yields, in quarters.                             *)
AttemptLimits == {1, 2, 3}
BaseDelays == {1, 2}
MaxDelays == {2, 3, 5}
BackoffFactors == {1, 2, 3}
Randoms == {0, 1, 2, 3}
(* What the caches are asked for: the keys get_cached_data is called with, *)
(* the ttl both caches are set up with, and the functions wrapped with      *)
(* cache_expensive_calculation with the arguments they are called with.    *)
(* A positional argument is a plain value or an object with a __dict__     *)
(* (a service instance, a DataFrame); `text` is its str().                 *)
CacheKeys == {"players", "teams"}
CacheTtls == {1, 2}
CachedFuncs == {"calculate_xp", "get_top_captain_options"}
PositionalArgs ==
  {<<[has_dict |-> FALSE, text |-> "1"]>>,
   <<[has_dict |-> FALSE, text |-> "2"]>>,
   <<[has_dict |-> TRUE, text |-> "player_a"]>>,
   <<[has_dict |-> TRUE, text |-> "player_b"]>>}
KeywordArgs == {<<>>, <<[name |-> "gameweek", text |-> "2"]>>}
FetchKeywordArgs == {<<>>, <<[name |-> "player_id", text |-> "123"]>>}
OperationErrors == {"TimeoutError", "ConnectionError", "ValueError"}
ConcurrentErrors == {"TimeoutError"}

(* ------------------------- program constants -------------------------- *)
DefaultFailureThreshold == 5
DefaultRecoveryTimeout == 60
DefaultSuccessThreshold == 2
DefaultTimeout == 30
RecentErrorsMaxLen == 100
ApiCallsMaxAttempts == 3
CriticalMaxAttempts == 5
DefaultMaxAttempts == 3

CLOSED == "closed"
OPEN == "open"
HALF_OPEN == "half_open"

(* Optional values: <<>> is None, <<v>> is the value v. *)
None == <<>>
Some(v) == <<v>>

(* CircuitBreakerConfig(...) with explicit thresholds. *)
CircuitBreakerConfig(ft, rt, st) ==
  [failure_threshold |-> ft, recovery_timeout |-> rt,
   success_threshold |-> st, timeout |-> DefaultTimeout]

(* The configurations callers pass to resilient_call. *)
Configs ==
  {CircuitBreakerConfig(ft, rt, st) :
     ft \in 1..MaxThreshold,
     rt \in RecoveryTimeouts,
     st \in 1..MaxThreshold}

(* The same, the callers also setting `timeout`. *)
TimeoutConfigs ==
  {[c EXCEPT !.timeout = to] : c \in Configs, to \in CallTimeouts}

(* CircuitBreaker.__init__ *)
CircuitBreaker(config, name) ==
  [config |-> config, name |-> name, state |-> CLOSED,
   failure_count |-> 0, success_count |-> 0, last_failure_time |-> None,
   total_requests |-> 0, total_failures |-> 0, total_timeouts |-> 0]

(* CircuitBreaker._should_attempt_reset, at clock value t_now. *)
_should_attempt_reset_always(cb, t_now) == TRUE

_should_attempt_reset(cb, t_now) ==
  IF cb.last_failure_time = None
    THEN TRUE
    ELSE t_now - cb.last_failure_time[1] >= cb.config.recovery_timeout

(* The locked prologue of CircuitBreaker.call: the breaker afterwards and  *)
(* whether the service-unavailable error was raised.                       *)
call_enter_stays_open(cb, t_now) ==
  [cb |-> [cb EXCEPT !.total_requests = @ + 1],
   raised |-> cb.state = OPEN /\ ~_should_attempt_reset(cb, t_now)]

call_enter_uncounted_rejection(cb, t_now) ==
  IF cb.state = OPEN
    THEN IF ~_should_attempt_reset(cb, t_now)
           THEN [cb |-> cb, raised |-> TRUE]
           ELSE [cb |-> [cb EXCEPT !.total_requests = @ + 1,
                                   !.state = HALF_OPEN],
                 raised |-> FALSE]
    ELSE [cb |-> [cb EXCEPT !.total_requests = @ + 1], raised |-> FALSE]

call_enter_resets_any_state(cb, t_now) ==
  LET c1 == [cb EXCEPT !.total_requests = @ + 1] IN
  IF _should_attempt_reset(c1, t_now)
    THEN [cb |-> [c1 EXCEPT !.state = HALF_OPEN], raised |-> FALSE]
    ELSE [cb |-> c1, raised |-> c1.state = OPEN]

call_enter(cb, t_now) ==
  LET c1 == [cb EXCEPT !.total_requests = @ + 1] IN
  IF c1.state = OPEN
    THEN IF ~_should_attempt_reset(c1, t_now)
           THEN [cb |-> c1, raised |-> TRUE]
           ELSE [cb |-> [c1 EXCEPT !.state = HALF_OPEN], raised |-> FALSE]
    ELSE [cb |-> c1, raised |-> FALSE]

(* CircuitBreaker._on_success; `duration` is what call measured around     *)
(* func.                                                                   *)
_on_success_while_open(cb, duration) ==
  IF cb.state # CLOSED
    THEN LET c1 == [cb EXCEPT !.success_count = @ + 1] IN
         IF c1.success_count >= c1.config.success_threshold
           THEN [c1 EXCEPT !.state = CLOSED, !.failure_count = 0,
                           !.success_count = 0]
           ELSE c1
    ELSE [cb EXCEPT !.failure_count = 0]

_on_success_strict(cb, duration) ==
  IF cb.state = HALF_OPEN
    THEN LET c1 == [cb EXCEPT !.success_count = @ + 1] IN
         IF c1.success_count > c1.config.success_threshold
           THEN [c1 EXCEPT !.state = CLOSED, !.failure_count = 0,
                           !.success_count = 0]
           ELSE c1
    ELSE IF cb.state = CLOSED
      THEN [cb EXCEPT !.failure_count = 0]
      ELSE cb

_on_success_keeps_failures(cb, duration) ==
  IF cb.state = HALF_OPEN
    THEN LET c1 == [cb EXCEPT !.success_count = @ + 1] IN
         IF c1.success_count >= c1.config.success_threshold
           THEN [c1 EXCEPT !.state = CLOSED, !.failure_count = 0,
                           !.success_count = 0]
           ELSE c1
    ELSE cb

_on_success_resets_unless_half_open(cb, duration) ==
  IF cb.state = HALF_OPEN
    THEN LET c1 == [cb EXCEPT !.success_count = @ + 1] IN
         IF c1.success_count >= c1.config.success_threshold
           THEN [c1 EXCEPT !.state = CLOSED, !.failure_count = 0,
                           !.success_count = 0]
           ELSE c1
    ELSE [cb EXCEPT !.failure_count = 0]

_on_success(cb, duration) ==
  IF cb.state = HALF_OPEN
    THEN LET c1 == [cb EXCEPT !.success_count = @ + 1] IN
         IF c1.success_count >= c1.config.success_threshold
           THEN [c1 EXCEPT !.state = CLOSED, !.failure_count = 0,
                           !.success_count = 0]
           ELSE c1
    ELSE IF cb.state = CLOSED
      THEN [cb EXCEPT !.failure_count = 0]
      ELSE cb

(* CircuitBreaker._on_failure, at clock value t_now. *)
_on_failure_counted(cb, exception, t_now) ==
  [cb EXCEPT !.total_failures = @ + 1,
             !.failure_count = @ + 1,
             !.last_failure_time = Some(t_now),
             !.total_timeouts =
                IF exception.type \in {"TimeoutError", "ConnectionError"}
                  THEN @ + 1 ELSE @]

_on_failure_late(cb, exception, t_now) ==
  LET c1 == _on_failure_counted(cb, exception, t_now) IN
  IF c1.failure_count > c1.config.failure_threshold
    THEN [c1 EXCEPT !.state = OPEN]
    ELSE c1

_on_failure_exact(cb, exception, t_now) ==
  LET c1 == _on_failure_counted(cb, exception, t_now) IN
  IF c1.failure_count = c1.config.failure_threshold
    THEN [c1 EXCEPT !.state = OPEN]
    ELSE c1

_on_failure_uncounted_when_open(cb, exception, t_now) ==
  IF cb.state = OPEN
    THEN [cb EXCEPT !.failure_count = @ + 1,
                    !.last_failure_time = Some(t_now)]
    ELSE LET c1 == _on_failure_counted(cb, exception, t_now) IN
         IF c1.failure_count >= c1.config.failure_threshold
           THEN [c1 EXCEPT !.state = OPEN]
           ELSE c1

_on_failure(cb, exception, t_now) ==
  LET c1 == [cb EXCEPT !.total_failures = @ + 1,
                       !.failure_count = @ + 1,
                       !.last_failure_time = Some(t_now),
                       !.total_timeouts =
                          IF exception.type \in {"TimeoutError", "ConnectionError"}
                            THEN @ + 1 ELSE @] IN
  IF c1.failure_count >= c1.config.failure_threshold
    THEN [c1 EXCEPT !.state = OPEN]
    ELSE c1

(* An exception object: its class, its message and what it wraps. *)
Exception(type) ==
  [type |-> type, message |-> "operation failed", original_exception |-> None]

(* CircuitBreaker.call, `except Exception as e: ... raise`: what the caller *)
(* of call receives when func raised `exception`.                          *)
call_reraise_wrapped(exception) ==
  [type |-> "FPLError", message |-> "operation failed",
   original_exception |-> Some(exception)]

call_reraise(exception) == exception

(* What func returns when it succeeds. *)
ReturnValue ==
  [type |-> "value", message |-> "", original_exception |-> None]

(* The FPLError CircuitBreaker.call raises while the circuit is open. *)
CircuitOpenError ==
  [type |-> "FPLError", message |-> "circuit breaker is OPEN",
   original_exception |-> None]

(* RetryStrategy.__init__; delays in half seconds. *)
RetryStrategy(max_attempts, base_delay, max_delay, backoff_factor, jitter) ==
  [max_attempts |-> max_attempts, base_delay |-> base_delay,
   max_delay |-> max_delay, backoff_factor |-> backoff_factor,
   jitter |-> jitter]

(* EnhancedErrorRecovery.get_retry_strategy: the strategy a name stands for. *)
get_retry_strategy(strategy_name) ==
  IF strategy_name = "api_calls"
    THEN RetryStrategy(ApiCallsMaxAttempts, 2, 120, 2, TRUE)
    ELSE IF strategy_name = "critical_operations"
      THEN RetryStrategy(CriticalMaxAttempts, 1, 20, 2, TRUE)
      ELSE RetryStrategy(DefaultMaxAttempts, 2, 120, 2, TRUE)

(* RetryStrategy.execute, after the attempt with 0-based index `attempt`:  *)
(* "return" the value, "sleep" and go on to the next attempt, or "raise".  *)
(* The sleep changes no state of the program; the clock advances on its    *)
(* own (Tick).                                                             *)
execute_after_one_short(retry, attempt, raised) ==
  IF ~raised THEN "return"
  ELSE IF attempt < retry.max_attempts - 2 THEN "sleep" ELSE "raise"

execute_after_retry_success(retry, attempt, raised) ==
  IF attempt < retry.max_attempts - 1 THEN "sleep"
  ELSE IF raised THEN "raise" ELSE "return"

execute_after(retry, attempt, raised) ==
  IF ~raised THEN "return"
  ELSE IF attempt < retry.max_attempts - 1 THEN "sleep" ELSE "raise"

(* RetryStrategy._calculate_delay, in eighths of the unit base_delay and   *)
(* max_delay are given in; `random` is the value of random.random() in     *)
(* quarters, so the jitter factor 0.5 + random.random() * 0.5 is            *)
(* (4 + random) / 8.                                                       *)
RECURSIVE Power(_, _)
Power(b, n) == IF n = 0 THEN 1 ELSE b * Power(b, n - 1)

Min(a, b) == IF a <= b THEN a ELSE b

_calculate_delay_uncapped(retry, attempt, random) ==
  LET delay == retry.base_delay * Power(retry.backoff_factor, attempt) IN
  IF retry.jitter THEN delay * (4 + random) ELSE delay * 8

_calculate_delay(retry, attempt, random) ==
  LET d1 == retry.base_delay * Power(retry.backoff_factor, attempt)
      d2 == Min(d1, retry.max_delay)
  IN IF retry.jitter THEN d2 * (4 + random) ELSE d2 * 8

(* The FPLError RetryStrategy.execute raises once every attempt has failed. *)
execute_error_unwrapped(retry, last_exception) == last_exception[1]

execute_error(retry, last_exception) ==
  [type |-> "FPLError", message |-> "all retry attempts failed",
   original_exception |-> last_exception]

(* deque(maxlen=...).append *)
deque_append_drops_newest(q, x, maxlen) ==
  IF Len(q) >= maxlen
    THEN Append(SubSeq(q, 1, Len(q) - 1), x)
    ELSE Append(q, x)

deque_append(q, x, maxlen) ==
  IF Len(q) >= maxlen THEN Append(Tail(q), x) ELSE Append(q, x)

(* EnhancedErrorRecovery._record_error, given the value read from         *)
(* error_counts[service_name]: the count stored back and recent_errors     *)
(* with the record appended (its timestamp is not kept).                   *)
_record_error_no_history(count_read, errors, service_name, error) ==
  [count |-> count_read + 1, recent_errors |-> errors]

_record_error(count_read, errors, service_name, error) ==
  [count |-> count_read + 1,
   recent_errors |->
     deque_append(errors,
                  [service |-> service_name, error |-> error.message,
                   type |-> error.type],
                  RecentErrorsMaxLen)]

(* A request to one of the caches: a call of a function wrapped with       *)
(* cache_expensive_calculation, or get_cached_data(key, fetch_func, ttl).  *)
CachedCallRequest(func, args, kwargs) ==
  [cache |-> "session_state", func |-> func, args |-> args,
   kwargs |-> kwargs, key |-> ""]

GetCachedDataRequest(key, kwargs) ==
  [cache |-> "cache_data", func |-> "_cached_fetch", args |-> <<>>,
   kwargs |-> kwargs, key |-> key]

(* What func / fetch_func returns when invoked for `request` at t_now. *)
Computed(request, t_now) == [request |-> request, at |-> t_now]

(* cache_expensive_calculation.wrapper: the cache key, made of the         *)
(* function and the str() of the positional arguments without a __dict__;  *)
(* the md5 of the list stands for the list.                                *)
RECURSIVE serializable_args(_)
serializable_args(args) ==
  IF args = <<>> THEN <<>>
  ELSE IF Head(args).has_dict
    THEN serializable_args(Tail(args))
    ELSE <<Head(args).text>> \o serializable_args(Tail(args))

cache_key(func, args, kwargs) ==
  [func |-> func, args_hash |-> serializable_args(args)]

(* st.cache_data on _cached_fetch(_key, *_args, **_kwargs): the key of a   *)
(* cached value is made of the arguments whose parameter name does not     *)
(* begin with an underscore, so not of _key.                               *)
_cached_fetch_key(_key, _args, _kwargs) == [args |-> _args, kwargs |-> _kwargs]

(* The session cache's and st.cache_data's freshness test. *)
is_fresh(entry, ttl, t_now) ==
  /\ entry # None
  /\ t_now - entry[1].timestamp < ttl

(* ------------------------------- state -------------------------------- *)
VARIABLES
  now,               \* the clock datetime.now() reads
  circuit_config,    \* the circuit_config the callers pass (None: default)
  breakers,          \* every CircuitBreaker object created, by identity
  circuit_breakers,  \* EnhancedErrorRecovery.circuit_breakers: name -> identity (0: absent)
  error_counts,      \* EnhancedErrorRecovery.error_counts
  recent_errors,     \* EnhancedErrorRecovery.recent_errors
  thread,            \* each thread's position in resilient_call and its locals
  history,           \* per breaker: what has been observed of it so far
  retry_run,         \* a RetryStrategy.execute run on its own: the strategy,
                     \* the loop's position and the sleeps made so far
  cache              \* the caches of one Streamlit session: the ttl in use,
                     \* the entries in st.session_state, the entries of
                     \* st.cache_data, st.session_state.cache_stats, and
                     \* the requests made so far with their outcomes

vars == <<now, circuit_config, breakers, circuit_breakers, error_counts,
          recent_errors, thread, history, retry_run, cache>>

(* What the registry's operations leave alone. *)
outside_registry == <<retry_run, cache>>

(* EnhancedErrorRecovery.__init__ *)
EnhancedErrorRecovery ==
  [circuit_breakers |-> [s \in Services |-> 0],
   error_counts |-> [s \in Services |-> 0],
   recent_errors |-> <<>>]

IdleThread ==
  [pc |-> "idle", service_name |-> "", retry_strategy |-> "",
   circuit_config |-> None,
   \* the registry the wrapper of resilient_api_call constructed for this
   \* call (None: the call is made on the module-level error_recovery)
   recovery |-> None,
   circuit_breaker |-> 0, attempt |-> 0, last_exception |-> None,
   count_read |-> 0,
   \* observations: protected calls made so far, the resilient_calls per
   \* service that ended in failure, what the last resilient_call returned
   \* or raised,
   \* and of the current one the protected calls made, those that raised,
   \* the invocations of func, the telemetry when it began, and the state
   \* the breaker was left in when the invocation in flight was let through
   requests |-> 0, failed_calls |-> [s \in Services |-> 0], result |-> None,
   protected_calls |-> 0, raised_calls |-> 0, last_raised |-> None,
   invoked |-> 0, admitted_in |-> None,
   \* CircuitBreaker.call's start_time, while func runs
   start_time |-> None,
   \* observation: what func raised in the latest protected call
   func_error |-> None,
   counts_before |-> [s \in Services |-> 0], errors_before |-> 0]

(* resilient_call has returned or raised `result` to its caller: its       *)
(* locals are gone.                                                        *)
Finished(th, result) ==
  [IdleThread EXCEPT !.requests = th.requests,
                     !.failed_calls =
                        IF result = ReturnValue THEN th.failed_calls
                        ELSE [th.failed_calls EXCEPT ![th.service_name] = @ + 1],
                     !.result = Some(result)]

(* Observations of one breaker: the failures recorded since it was last   *)
(* CLOSED with failure_count = 0, the successes recorded since it last     *)
(* turned HALF_OPEN or recorded a failure, the invocations of call made    *)
(* on it and the invocations of func that raised.                          *)
NewHistory ==
  [failures_since_reset |-> 0, successes_in_a_row |-> 0,
   calls |-> 0, func_raised |-> 0]

(* The registry as constructed, the callers passing one of `configs`. *)
InitWith(configs) ==
  /\ now = 0
  /\ circuit_config \in configs
  /\ breakers = <<>>
  /\ circuit_breakers = EnhancedErrorRecovery.circuit_breakers
  /\ error_counts = EnhancedErrorRecovery.error_counts
  /\ recent_errors = EnhancedErrorRecovery.recent_errors
  /\ thread = [t \in Threads |-> IdleThread]
  /\ history = <<>>

(* Nothing else is going on. *)
InitOutside == retry_run = None /\ cache = None

(* The callers pass no config (the default applies) or any of Configs. *)
Init == InitWith({None} \cup {Some(c) : c \in Configs}) /\ InitOutside

(* The callers pass no config to the registry as constructed. *)
InitDefault == InitWith({None}) /\ InitOutside

(* Concurrent callers pass one of Configs. *)
InitConcurrent == InitWith({Some(c) : c \in Configs}) /\ InitOutside

(* The callers pass a config that sets the call timeout. *)
InitTimeout == InitWith({Some(c) : c \in TimeoutConfigs}) /\ InitOutside

(* ------------------------------ actions ------------------------------- *)
(* Time passes. *)
Tick ==
  /\ now < MaxTime
  /\ now' = now + 1
  /\ UNCHANGED <<circuit_config, breakers, circuit_breakers, error_counts,
                 recent_errors, thread, history>>
  /\ UNCHANGED outside_registry

(* The registry thread t's resilient_call runs on, and the circuit_config   *)
(* it is given (the wrapper of a function without arguments passes none).  *)
RecoveryOf(t) ==
  IF thread[t].recovery = None
    THEN [circuit_breakers |-> circuit_breakers,
          error_counts |-> error_counts,
          recent_errors |-> recent_errors]
    ELSE thread[t].recovery[1]

ConfigOf(t) ==
  IF thread[t].recovery = None THEN thread[t].circuit_config ELSE None

(* get_circuit_breaker, `service_name not in self.circuit_breakers`, the   *)
(* registry mapping names to the breaker objects `objects`.                *)
not_in_circuit_breakers_or_reconfigured(registered, service_name, config, objects) ==
  \/ registered[service_name] = 0
  \/ /\ config # None
     /\ objects[registered[service_name]].config # config[1]

not_in_circuit_breakers(registered, service_name, config, objects) ==
  registered[service_name] = 0

(* resilient_call(func, service_name, retry_strategy, circuit_config) is   *)
(* entered by thread t: on the module-level error_recovery, or, when       *)
(* `wrapped`, by the wrapper of resilient_api_call on the registry it has  *)
(* just constructed.                                                       *)
ResilientCall(t, budget, services, strategies, wrappers, configs) ==
  /\ thread[t].pc = "idle"
  /\ \E s \in services, r \in strategies, wrapped \in wrappers,
        config \in configs :
       /\ thread[t].requests + get_retry_strategy(r).max_attempts <= budget
       /\ thread' = [thread EXCEPT ![t] =
         [IdleThread EXCEPT !.pc = "get_circuit_breaker",
                            !.service_name = s,
                            !.retry_strategy = r,
                            !.circuit_config = config,
                            !.recovery = IF wrapped
                                           THEN Some(EnhancedErrorRecovery)
                                           ELSE None,
                            !.requests = thread[t].requests,
                            !.failed_calls = thread[t].failed_calls,
                            !.counts_before = error_counts,
                            !.errors_before = Len(recent_errors)]]
  /\ UNCHANGED <<now, circuit_config, breakers, circuit_breakers,
                 error_counts, recent_errors, history>>
  /\ UNCHANGED outside_registry

(* get_circuit_breaker: the membership test; a known name returns its      *)
(* breaker.                                                                *)
GetCircuitBreaker(t) ==
  /\ thread[t].pc = "get_circuit_breaker"
  /\ LET id == RecoveryOf(t).circuit_breakers[thread[t].service_name] IN
     thread' = [thread EXCEPT ![t] =
       IF not_in_circuit_breakers(RecoveryOf(t).circuit_breakers,
                                  thread[t].service_name, ConfigOf(t),
                                  breakers)
         THEN [@ EXCEPT !.pc = "create_circuit_breaker"]
         ELSE [@ EXCEPT !.pc = "call", !.circuit_breaker = id]]
  /\ UNCHANGED <<now, circuit_config, breakers, circuit_breakers,
                 error_counts, recent_errors, history>>
  /\ UNCHANGED outside_registry

(* get_circuit_breaker: construct a breaker and store it under the name.   *)
CreateCircuitBreaker(t) ==
  /\ thread[t].pc = "create_circuit_breaker"
  /\ LET config == IF ConfigOf(t) = None
                     THEN CircuitBreakerConfig(DefaultFailureThreshold,
                                               DefaultRecoveryTimeout,
                                               DefaultSuccessThreshold)
                     ELSE ConfigOf(t)[1]
         id == Len(breakers) + 1
         stored == [RecoveryOf(t).circuit_breakers
                      EXCEPT ![thread[t].service_name] = id]
     IN /\ breakers' = Append(breakers,
                              CircuitBreaker(config, thread[t].service_name))
        /\ history' = Append(history, NewHistory)
        /\ IF thread[t].recovery = None
             THEN /\ circuit_breakers' = stored
                  /\ thread' = [thread EXCEPT
                                  ![t].pc = "return_circuit_breaker"]
             ELSE /\ circuit_breakers' = circuit_breakers
                  /\ thread' = [thread EXCEPT ![t] =
                       [@ EXCEPT !.pc = "return_circuit_breaker",
                                 !.recovery = Some([RecoveryOf(t) EXCEPT
                                    !.circuit_breakers = stored])]]
  /\ UNCHANGED <<now, circuit_config, error_counts, recent_errors>>
  /\ UNCHANGED outside_registry

(* get_circuit_breaker: return self.circuit_breakers[service_name]. *)
ReturnCircuitBreaker(t) ==
  /\ thread[t].pc = "return_circuit_breaker"
  /\ thread' = [thread EXCEPT ![t] =
       [@ EXCEPT !.pc = "call",
                 !.circuit_breaker =
                    RecoveryOf(t).circuit_breakers[thread[t].service_name]]]
  /\ UNCHANGED <<now, circuit_config, breakers, circuit_breakers,
                 error_counts, recent_errors, history>>
  /\ UNCHANGED outside_registry

(* What RetryStrategy.execute and resilient_call do in thread t once the   *)
(* current attempt has returned or raised exception e.                     *)
AfterAttempt(th0, raised, e) ==
  LET th == [th0 EXCEPT !.raised_calls = IF raised THEN @ + 1 ELSE @,
                        !.last_raised = IF raised THEN Some(e) ELSE @,
                        !.admitted_in = None,
                        !.start_time = None]
      retry == get_retry_strategy(th.retry_strategy)
      next == execute_after(retry, th.attempt, raised)
      last == IF raised THEN Some(e) ELSE th.last_exception
  IN IF next = "return"
       THEN Finished(th, ReturnValue)
     ELSE IF next = "sleep"
       THEN [th EXCEPT !.pc = "call", !.attempt = @ + 1,
                       !.last_exception = last]
       ELSE [th EXCEPT !.pc = "record_error", !.last_exception = last,
                       !.result = Some(execute_error(retry, last))]

(* CircuitBreaker.call, the locked prologue: count the request and either  *)
(* reject it or let it through.                                            *)
Call(t) ==
  /\ thread[t].pc = "call"
  /\ LET id == thread[t].circuit_breaker
         r == call_enter(breakers[id], now)
     IN /\ breakers' = [breakers EXCEPT ![id] = r.cb]
        /\ history' = [history EXCEPT ![id] =
             [@ EXCEPT !.successes_in_a_row =
                          IF breakers[id].state # HALF_OPEN
                             /\ r.cb.state = HALF_OPEN THEN 0 ELSE @,
                       !.calls = @ + 1]]
        /\ thread' = [thread EXCEPT ![t] =
             LET th == [@ EXCEPT !.protected_calls = @ + 1,
                                 !.requests = @ + 1,
                                 !.func_error = None] IN
             IF r.raised
               THEN AfterAttempt(th, TRUE, CircuitOpenError)
               ELSE [th EXCEPT !.pc = "func", !.invoked = @ + 1,
                               !.admitted_in = Some(r.cb.state),
                               !.start_time = Some(now)]]
  /\ UNCHANGED <<now, circuit_config, circuit_breakers, error_counts,
                 recent_errors>>
  /\ UNCHANGED outside_registry

(* func returns; _on_success under the lock; the value is returned. *)
FuncReturns(t) ==
  /\ thread[t].pc = "func"
  /\ LET id == thread[t].circuit_breaker
         duration == now - thread[t].start_time[1]
         after == _on_success(breakers[id], duration)
     IN /\ breakers' = [breakers EXCEPT ![id] = after]
        /\ history' = [history EXCEPT ![id] =
             [@ EXCEPT !.failures_since_reset =
                          IF after.state = CLOSED /\ after.failure_count = 0
                            THEN 0 ELSE @,
                       !.successes_in_a_row = @ + 1]]
  /\ thread' = [thread EXCEPT ![t] = AfterAttempt(@, FALSE, CircuitOpenError)]
  /\ UNCHANGED <<now, circuit_config, circuit_breakers, error_counts,
                 recent_errors>>
  /\ UNCHANGED outside_registry

(* func raises; _on_failure under the lock; the exception is re-raised. *)
FuncRaises(t, errors) ==
  /\ thread[t].pc = "func"
  /\ \E type \in errors :
       LET id == thread[t].circuit_breaker
           after == _on_failure(breakers[id], Exception(type), now)
       IN /\ breakers' = [breakers EXCEPT ![id] = after]
          /\ history' = [history EXCEPT ![id] =
               [@ EXCEPT !.failures_since_reset = @ + 1,
                         !.successes_in_a_row = 0,
                         !.func_raised = @ + 1]]
          /\ thread' = [thread EXCEPT ![t] =
               AfterAttempt([@ EXCEPT !.func_error = Some(Exception(type))],
                            TRUE, call_reraise(Exception(type)))]
  /\ UNCHANGED <<now, circuit_config, circuit_breakers, error_counts,
                 recent_errors>>
  /\ UNCHANGED outside_registry

(* _record_error: self.error_counts[service_name] is read ... *)
RecordError(t) ==
  /\ thread[t].pc = "record_error"
  /\ thread' = [thread EXCEPT ![t] =
       [@ EXCEPT !.pc = "store_error_count",
                 !.count_read =
                    RecoveryOf(t).error_counts[thread[t].service_name]]]
  /\ UNCHANGED <<now, circuit_config, breakers, circuit_breakers,
                 error_counts, recent_errors, history>>
  /\ UNCHANGED outside_registry

(* ... incremented and stored, the record is appended, and resilient_call  *)
(* re-raises.                                                              *)
StoreErrorCount(t) ==
  /\ thread[t].pc = "store_error_count"
  /\ LET r == _record_error(thread[t].count_read,
                            RecoveryOf(t).recent_errors,
                            thread[t].service_name, thread[t].result[1])
     IN IF thread[t].recovery = None
          THEN /\ error_counts' =
                    [error_counts EXCEPT ![thread[t].service_name] = r.count]
               /\ recent_errors' = r.recent_errors
          ELSE \* the wrapper's registry is dropped with the call
               UNCHANGED <<error_counts, recent_errors>>
  /\ thread' = [thread EXCEPT ![t] = Finished(@, thread[t].result[1])]
  /\ UNCHANGED <<now, circuit_config, breakers, circuit_breakers, history>>
  /\ UNCHANGED outside_registry

Step(t, budget, services, strategies, errors, wrappers, configs) ==
  \/ ResilientCall(t, budget, services, strategies, wrappers, configs)
  \/ GetCircuitBreaker(t)
  \/ CreateCircuitBreaker(t)
  \/ ReturnCircuitBreaker(t)
  \/ Call(t)
  \/ FuncReturns(t)
  \/ FuncRaises(t, errors)
  \/ RecordError(t)
  \/ StoreErrorCount(t)

(* Concurrent callers of one service, making api calls. *)
Next ==
  \/ Tick
  \/ \E t \in Threads :
       Step(t, MaxRequests, {"fpl_api"}, {"api_calls"}, ConcurrentErrors,
            {FALSE}, {circuit_config})

Spec == InitConcurrent /\ [][Next]_vars

(* One caller at a time. *)
NextSeq ==
  \/ Tick
  \/ Step(MainThread, MaxRequestsSeq, Services, StrategyNames,
          OperationErrors, {FALSE}, {circuit_config})

SpecSeq == Init /\ [][NextSeq]_vars

(* One caller at a time, the breakers configured with a call timeout. *)
SpecTimeout == InitTimeout /\ [][NextSeq]_vars

(* One caller at a time of one service, calling the registry directly and *)
(* through functions wrapped with resilient_api_call.                      *)
NextWrapped ==
  \/ Tick
  \/ Step(MainThread, MaxRequestsSeq, {"fpl_api"}, {"api_calls"},
          {"ConnectionError"}, BOOLEAN, {circuit_config})

SpecWrapped == Init /\ [][NextWrapped]_vars

(* One caller at a time of one service, passing a circuit_config of its    *)
(* choice with every call.                                                 *)
NextReconfigure ==
  \/ Tick
  \/ Step(MainThread, MaxRequestsSeq, {"fpl_api"}, {"api_calls"},
          {"ConnectionError"}, {FALSE},
          {None} \cup {Some(c) : c \in Configs})

SpecReconfigure == InitDefault /\ [][NextReconfigure]_vars

(* One caller at a time making enough failing calls to fill recent_errors  *)
(* and go past its capacity: until the history is two records short of     *)
(* full, the calls are for one service, func always raises and the clock   *)
(* stands still; from then on they are for either service, func returns or *)
(* raises and time passes.                                                 *)
NearlyFull == Len(recent_errors) >= RecentErrorsMaxLen - 2

LongRunServices == IF NearlyFull THEN Services ELSE {"fpl_api"}

LongRunFuncReturns == NearlyFull /\ FuncReturns(MainThread)

LongRunTick == NearlyFull /\ Tick

NextLongRun ==
  \/ LongRunTick
  \/ ResilientCall(MainThread, 3 * (RecentErrorsMaxLen + 2), LongRunServices,
                   {"api_calls"}, {FALSE}, {circuit_config})
  \/ GetCircuitBreaker(MainThread)
  \/ CreateCircuitBreaker(MainThread)
  \/ ReturnCircuitBreaker(MainThread)
  \/ Call(MainThread)
  \/ LongRunFuncReturns
  \/ FuncRaises(MainThread, {"ConnectionError"})
  \/ RecordError(MainThread)
  \/ StoreErrorCount(MainThread)

SpecLongRun == InitDefault /\ [][NextLongRun]_vars

(* RetryStrategy.execute(func) run on its own with a strategy of the given *)
(* parameters.                                                             *)
RetryRuns ==
  {[retry |-> RetryStrategy(n, b, m, f, j), pc |-> "attempt", attempt |-> 0,
    last_exception |-> None, delays |-> <<>>] :
     n \in AttemptLimits, b \in BaseDelays, m \in MaxDelays,
     f \in BackoffFactors, j \in BOOLEAN}

InitRetry ==
  /\ InitWith({None})
  /\ retry_run \in RetryRuns
  /\ cache = None

registry_vars == <<now, circuit_config, breakers, circuit_breakers,
                   error_counts, recent_errors, thread, history>>

(* func returns: execute returns its value. *)
ExecuteFuncReturns ==
  /\ retry_run.pc = "attempt"
  /\ execute_after(retry_run.retry, retry_run.attempt, FALSE) = "return"
  /\ retry_run' = [retry_run EXCEPT !.pc = "returned"]
  /\ UNCHANGED <<registry_vars, cache>>

(* func raises and attempts are left: execute sleeps _calculate_delay and  *)
(* goes on to the next attempt.                                            *)
ExecuteSleeps ==
  /\ retry_run.pc = "attempt"
  /\ execute_after(retry_run.retry, retry_run.attempt, TRUE) = "sleep"
  /\ \E type \in OperationErrors, random \in Randoms :
       retry_run' = [retry_run EXCEPT
         !.last_exception = Some(Exception(type)),
         !.delays = Append(@, _calculate_delay(retry_run.retry,
                                               retry_run.attempt, random)),
         !.attempt = @ + 1]
  /\ UNCHANGED <<registry_vars, cache>>

(* func raises in the last attempt: execute raises without sleeping. *)
ExecuteRaises ==
  /\ retry_run.pc = "attempt"
  /\ execute_after(retry_run.retry, retry_run.attempt, TRUE) = "raise"
  /\ \E type \in OperationErrors :
       retry_run' = [retry_run EXCEPT
         !.last_exception = Some(Exception(type)),
         !.pc = "raised"]
  /\ UNCHANGED <<registry_vars, cache>>

NextRetry == ExecuteFuncReturns \/ ExecuteSleeps \/ ExecuteRaises

SpecRetry == InitRetry /\ [][NextRetry]_vars

(* -------------------------------- caches ------------------------------- *)
SessionKeys ==
  {cache_key(f, a, k) : f \in CachedFuncs, a \in PositionalArgs,
                        k \in KeywordArgs}

DataKeys ==
  {_cached_fetch_key(k, <<>>, kw) : k \in CacheKeys, kw \in FetchKeywordArgs}

(* A new session: CacheManager.__init__ has set up cache_stats, nothing is *)
(* cached.                                                                 *)
InitCache ==
  /\ InitWith({None})
  /\ retry_run = None
  /\ \E ttl \in CacheTtls :
       cache = [ttl |-> ttl,
                session_state |-> [k \in SessionKeys |-> None],
                cache_data |-> [k \in DataKeys |-> None],
                cache_stats |-> [hits |-> 0, misses |-> 0,
                                 invalidations |-> 0],
                log |-> <<>>]

Logged(op, request, fetched, returned) ==
  Append(cache.log, [op |-> op, request |-> request, at |-> now,
                     fetched |-> fetched, returned |-> returned])

(* A function wrapped with cache_expensive_calculation is called. *)
CachedCall ==
  /\ Len(cache.log) < MaxCacheRequests
  /\ \E func \in CachedFuncs, args \in PositionalArgs, kwargs \in KeywordArgs :
       LET request == CachedCallRequest(func, args, kwargs)
           key == cache_key(func, args, kwargs)
           entry == cache.session_state[key]
       IN IF is_fresh(entry, cache.ttl, now)
            THEN cache' = [cache EXCEPT
                   !.log = Logged("request", request, FALSE, entry[1].value)]
            ELSE LET result == Computed(request, now) IN
                 cache' = [cache EXCEPT
                   !.session_state[key] =
                      Some([value |-> result, timestamp |-> now]),
                   !.log = Logged("request", request, TRUE, result)]
  /\ UNCHANGED <<registry_vars, retry_run>>

(* get_cached_data(key, fetch_func, ttl, **kwargs) *)
GetCachedData ==
  /\ Len(cache.log) < MaxCacheRequests
  /\ \E key \in CacheKeys, kwargs \in FetchKeywordArgs :
       LET request == GetCachedDataRequest(key, kwargs)
           value_key == _cached_fetch_key(key, <<>>, kwargs)
           entry == cache.cache_data[value_key]
       IN IF is_fresh(entry, cache.ttl, now)
            THEN cache' = [cache EXCEPT
                   !.log = Logged("request", request, FALSE, entry[1].value)]
            ELSE LET result == Computed(request, now) IN
                 cache' = [cache EXCEPT
                   !.cache_data[value_key] =
                      Some([value |-> result, timestamp |-> now]),
                   !.log = Logged("request", request, TRUE, result)]
  /\ UNCHANGED <<registry_vars, retry_run>>

(* CacheManager.clear_all_caches *)
ClearAllCaches ==
  /\ Len(cache.log) < MaxCacheRequests
  /\ cache' = [cache EXCEPT
       !.cache_data = [k \in DataKeys |-> None],
       !.cache_stats.invalidations = @ + 1,
       !.log = Logged("clear_all_caches", GetCachedDataRequest("", <<>>),
                      FALSE, Computed(GetCachedDataRequest("", <<>>), now))]
  /\ UNCHANGED <<registry_vars, retry_run>>

NextCache == Tick \/ CachedCall \/ GetCachedData \/ ClearAllCaches

SpecCache == InitCache /\ [][NextCache]_vars

(* ------------------------- reading a behaviour ------------------------- *)
(* The breaker thread t calls, before and after a step. *)
BreakerOf(t) == breakers[thread[t].circuit_breaker]
BreakerAfter(t) == breakers'[thread[t].circuit_breaker]
HistoryAfter(t) == history'[thread[t].circuit_breaker]
RetryOf(t) == get_retry_strategy(thread[t].retry_strategy)

(* Thread t runs the prologue of CircuitBreaker.call in this step. *)
CallStep(t) == thread[t].pc = "call" /\ thread'[t] # thread[t]
(* ... and is rejected / let through. *)
Rejected(t) ==
  /\ CallStep(t)
  /\ thread'[t].pc # "func"
  /\ thread'[t].invoked = thread[t].invoked
  /\ thread'[t].last_raised = Some(CircuitOpenError)
Admitted(t) ==
  /\ CallStep(t)
  /\ thread'[t].pc = "func"
  /\ thread'[t].invoked = thread[t].invoked + 1

(* func, invoked by thread t, raises / returns in this step. *)
RaisesStep(t) ==
  /\ thread[t].pc = "func"
  /\ thread'[t] # thread[t]
  /\ BreakerAfter(t).total_failures = BreakerOf(t).total_failures + 1
ReturnsStep(t) ==
  /\ thread[t].pc = "func"
  /\ thread'[t] # thread[t]
  /\ BreakerAfter(t).total_failures = BreakerOf(t).total_failures

(* Less than recovery_timeout has elapsed since cb's last failure. *)
BeforeRecoveryTimeout(cb) ==
  /\ cb.last_failure_time # None
  /\ now - cb.last_failure_time[1] < cb.config.recovery_timeout

RetriesFailed(e) == e.type = "FPLError" /\ e.message = "all retry attempts failed"

(* ------------------------------- claims -------------------------------- *)
(* C1: counting the failures recorded since a breaker was CLOSED with      *)
(* failure_count = 0, the failure that makes the count failure_threshold   *)
(* leaves it OPEN, and a failure that leaves the count below               *)
(* failure_threshold leaves it CLOSED.                                     *)
C1_OpensAtFailureThreshold ==
  [][\A t \in Threads :
       RaisesStep(t) =>
         LET n == HistoryAfter(t).failures_since_reset
             ft == BreakerOf(t).config.failure_threshold
         IN /\ n = ft => BreakerAfter(t).state = OPEN
            /\ n < ft => BreakerAfter(t).state = CLOSED]_vars

C1_Witness ==
  \E i \in 1..Len(breakers) :
    /\ breakers[i].config.failure_threshold = 2
    /\ history[i].failures_since_reset = 2
    /\ breakers[i].state = OPEN

(* C2: a call on an OPEN breaker made less than recovery_timeout after     *)
(* last_failure_time raises the circuit-open error, leaves the breaker     *)
(* OPEN and does not invoke func.                                          *)
C2_OpenRejectsBeforeTimeout ==
  [][\A t \in Threads :
       (CallStep(t) /\ BreakerOf(t).state = OPEN
          /\ BeforeRecoveryTimeout(BreakerOf(t)))
       => Rejected(t) /\ BreakerAfter(t).state = OPEN]_vars

C2_Witness ==
  \E t \in Threads :
    /\ thread[t].pc = "call"
    /\ thread[t].last_raised = Some(CircuitOpenError)
    /\ BreakerOf(t).state = OPEN
    /\ BreakerOf(t).config.recovery_timeout = 2
    /\ now - BreakerOf(t).last_failure_time[1] = 1

(* C3: a call on an OPEN breaker made once recovery_timeout has elapsed    *)
(* since last_failure_time turns the breaker HALF_OPEN and invokes func    *)
(* once; the call ends when that invocation returns or raises.             *)
C3_OpenAdmitsAfterTimeout ==
  [][\A t \in Threads :
       /\ (CallStep(t) /\ BreakerOf(t).state = OPEN
             /\ ~BeforeRecoveryTimeout(BreakerOf(t)))
          => Admitted(t) /\ BreakerAfter(t).state = HALF_OPEN
       /\ (thread[t].pc = "func" /\ thread'[t] # thread[t])
          => /\ thread'[t].pc # "func"
             /\ thread'[t].pc # "idle" => thread'[t].invoked = thread[t].invoked]_vars

C3_Witness ==
  \E t \in Threads :
    /\ thread[t].pc = "func"
    /\ BreakerOf(t).state = HALF_OPEN
    /\ BreakerOf(t).total_requests = BreakerOf(t).total_failures + 1
    /\ ~BeforeRecoveryTimeout(BreakerOf(t))

(* C4: a failure recorded while the breaker is HALF_OPEN leaves it OPEN,   *)
(* whatever its counters.                                                  *)
C4_HalfOpenFailureReopens ==
  [][\A t \in Threads :
       (RaisesStep(t) /\ BreakerOf(t).state = HALF_OPEN)
       => BreakerAfter(t).state = OPEN]_vars

C4_Witness ==
  \E i \in 1..Len(breakers) :
    /\ breakers[i].state = OPEN
    /\ breakers[i].success_count >= 1
    /\ breakers[i].failure_count > breakers[i].config.failure_threshold

C6_OpenBreakerFailsRetriesFast ==
  [][\A t \in Threads :
       (thread[t].pc \in {"call", "func"} /\ BreakerOf(t).state = OPEN
          /\ BeforeRecoveryTimeout(BreakerOf(t)))
       => /\ BreakerAfter(t).state = OPEN
          /\ CallStep(t) => Rejected(t)]_vars

C6_Witness ==
  \E t \in Threads :
    /\ thread[t].pc = "call"
    /\ thread[t].attempt = 2
    /\ thread[t].invoked = 1
    /\ thread[t].raised_calls = 2
    /\ thread[t].last_raised = Some(CircuitOpenError)
    /\ BreakerOf(t).config.failure_threshold = 2
    /\ BreakerOf(t).total_failures = 2
    /\ BreakerOf(t).state = OPEN

(* C7: execute makes at most max_attempts protected calls; it raises       *)
(* exactly when max_attempts of them have raised, and what it raises is    *)
(* the retries-failed error wrapping what the last of them raised.         *)
C7_AlwaysFailingExhaustsRetries ==
  \A t \in Threads :
    thread[t].pc # "idle" =>
      LET th == thread[t]
          n == RetryOf(t).max_attempts
          raising == th.pc \in {"record_error", "store_error_count"}
      IN /\ th.protected_calls <= n
         /\ th.raised_calls <= th.protected_calls
         /\ raising <=> th.raised_calls = n
         /\ raising =>
              /\ th.protected_calls = n
              /\ th.last_raised # None
              /\ RetriesFailed(th.result[1])
              /\ th.result[1].original_exception = th.last_raised

C7_Witness ==
  \E t \in Threads :
    /\ thread[t].pc = "record_error"
    /\ thread[t].protected_calls = CriticalMaxAttempts
    /\ thread[t].invoked = CriticalMaxAttempts
    /\ thread[t].result[1].original_exception = Some(Exception("ValueError"))

(* C8: when a protected call returns, execute returns the value at once:   *)
(* the protected calls made are the ones that raised plus this one, and    *)
(* none is made afterwards.                                                *)
C8_SuccessOnNthAttemptReturns ==
  [][\A t \in Threads :
       ReturnsStep(t) =>
         /\ thread'[t].pc = "idle"
         /\ thread'[t].result = Some(ReturnValue)
         /\ thread'[t].requests = thread[t].requests
         /\ thread[t].protected_calls = thread[t].raised_calls + 1
         /\ thread[t].protected_calls <= RetryOf(t).max_attempts]_vars

C8_Witness ==
  \E t \in Threads :
    /\ thread[t].pc = "idle"
    /\ thread[t].result = Some(ReturnValue)
    /\ thread[t].requests = CriticalMaxAttempts
    /\ Len(breakers) = 1
    /\ breakers[1].total_requests = CriticalMaxAttempts
    /\ breakers[1].total_failures >= 1

(* C9: whatever resilient_call raises is the retries-failed error; a       *)
(* rejection by the breaker on an attempt before the last is followed by   *)
(* the next attempt, and on the last attempt it is raised wrapped in the   *)
(* retries-failed error.                                                   *)
C9_OnlyRetriesFailedSurfaces ==
  [][\A t \in Threads :
       /\ (thread'[t].result # None /\ thread'[t].result # Some(ReturnValue))
          => RetriesFailed(thread'[t].result[1])
       /\ Rejected(t) =>
            IF thread[t].protected_calls + 1 < RetryOf(t).max_attempts
              THEN /\ thread'[t].pc = "call"
                   /\ thread'[t].attempt = thread[t].attempt + 1
              ELSE /\ thread'[t].pc = "record_error"
                   /\ RetriesFailed(thread'[t].result[1])
                   /\ thread'[t].result[1].original_exception
                        = Some(CircuitOpenError)]_vars

C9_Witness ==
  \E t \in Threads :
    /\ thread[t].pc = "idle"
    /\ thread[t].result # None
    /\ RetriesFailed(thread[t].result[1])
    /\ thread[t].result[1].original_exception = Some(CircuitOpenError)

(* C10 (one caller at a time): a resilient_call that raises leaves its     *)
(* service's error count one above, every other count equal to, and the    *)
(* history one record (naming its service) longer than when it began; one  *)
(* that returns leaves the counts and the history as they were; no other   *)
(* step changes either.                                                    *)
C10_FailureRecordedOnce ==
  [][\A t \in Threads :
       LET th == thread[t]
           ends == th.pc # "idle" /\ thread'[t].pc = "idle"
       IN /\ (ends /\ thread'[t].result # Some(ReturnValue))
             => /\ error_counts' =
                     [th.counts_before EXCEPT ![th.service_name] = @ + 1]
                /\ Len(recent_errors') = th.errors_before + 1
                /\ SubSeq(recent_errors', 1, th.errors_before)
                     = SubSeq(recent_errors, 1, th.errors_before)
                /\ recent_errors'[Len(recent_errors')].service = th.service_name
          /\ (ends /\ thread'[t].result = Some(ReturnValue))
             => /\ error_counts' = th.counts_before
                /\ recent_errors' = recent_errors
                /\ Len(recent_errors') = th.errors_before
          /\ (th.pc # "idle" /\ ~ends)
             => /\ error_counts' = th.counts_before
                /\ recent_errors' = recent_errors]_vars

C10_Witness ==
  \E t \in Threads :
    /\ thread[t].pc = "idle"
    /\ thread[t].result # None
    /\ RetriesFailed(thread[t].result[1])
    /\ error_counts["fpl_api"] = 1
    /\ error_counts["understat"] = 1
    /\ Len(recent_errors) = 2
    /\ recent_errors[1].service = "understat"
    /\ recent_errors[2].service = "fpl_api"

(* C11: of the invocations of func in flight on one breaker, at most one   *)
(* was let through while the breaker was HALF_OPEN.                        *)
TrialsInFlight(i) ==
  {t \in Threads : /\ thread[t].pc = "func"
                   /\ thread[t].circuit_breaker = i
                   /\ thread[t].admitted_in = Some(HALF_OPEN)}

C11_SingleTrialInHalfOpen ==
  \A i \in 1..Len(breakers) : Cardinality(TrialsInFlight(i)) <= 1

(* C12: once every call has returned, each breaker's total_requests is the *)
(* number of invocations of call made on it and its total_failures is the  *)
(* number of invocations of func that raised.                              *)
AllReturned == \A t \in Threads : thread[t].pc = "idle"

C12_NoCounterUpdateLost ==
  AllReturned =>
    \A i \in 1..Len(breakers) :
      /\ breakers[i].total_requests = history[i].calls
      /\ breakers[i].total_failures = history[i].func_raised

C12_Witness ==
  /\ AllReturned
  /\ \A t \in Threads : thread[t].result # None
  /\ \E i \in 1..Len(breakers) :
       /\ history[i].calls = 6
       /\ history[i].func_raised = 4
       /\ breakers[i].total_requests = 6
       /\ breakers[i].total_failures = 4

(* C13: at most one breaker is ever created for a service name, and every  *)
(* caller that has obtained a breaker for a name holds the one the         *)
(* registry keeps under that name.                                         *)
BreakersNamed(s) == {i \in 1..Len(breakers) : breakers[i].name = s}

C13_OneBreakerPerName ==
  /\ \A s \in Services : Cardinality(BreakersNamed(s)) <= 1
  /\ \A t \in Threads :
       thread[t].circuit_breaker # 0 =>
         thread[t].circuit_breaker = circuit_breakers[thread[t].service_name]

(* C14: once every resilient_call has returned, each service's error count *)
(* is the number of resilient_calls for it that ended in failure, and      *)
(* recent_errors holds one record per such failure, up to its capacity.    *)
RECURSIVE FailedCalls(_, _)
FailedCalls(ts, s) ==
  IF ts = {} THEN 0
  ELSE LET t == CHOOSE u \in ts : TRUE
       IN thread[t].failed_calls[s] + FailedCalls(ts \ {t}, s)

RecordsOf(s) == {k \in 1..Len(recent_errors) : recent_errors[k].service = s}

C14_NoErrorCountLost ==
  AllReturned =>
    /\ \A s \in Services : error_counts[s] = FailedCalls(Threads, s)
    /\ Len(recent_errors) < RecentErrorsMaxLen =>
         \A s \in Services :
           Cardinality(RecordsOf(s)) = FailedCalls(Threads, s)

(* C15: every breaker ever created under a service name is the one each    *)
(* protected call under that name runs against, calls made through a       *)
(* function wrapped with resilient_api_call included.                      *)
C15_OneBreakerForLife ==
  \A t \in Threads :
    thread[t].circuit_breaker # 0 =>
      \A i \in BreakersNamed(thread[t].service_name) :
        i = thread[t].circuit_breaker

(* C16: when an invocation of func ends after running longer than the      *)
(* breaker's config.timeout, whether it returns or raises, the breaker     *)
(* records a failure classified as a timeout: total_failures,              *)
(* total_timeouts and failure_count each go up by one.                     *)
FuncEnds(t) == thread[t].pc = "func" /\ thread'[t] # thread[t]

RanLongerThanTimeout(t) ==
  now - thread[t].start_time[1] > BreakerOf(t).config.timeout

C16_SlowCallIsTimeoutFailure ==
  [][\A t \in Threads :
       (FuncEnds(t) /\ RanLongerThanTimeout(t)) =>
         /\ BreakerAfter(t).total_failures = BreakerOf(t).total_failures + 1
         /\ BreakerAfter(t).total_timeouts = BreakerOf(t).total_timeouts + 1
         /\ BreakerAfter(t).failure_count = BreakerOf(t).failure_count + 1]_vars

(* C17: a step that turns a breaker HALF_OPEN leaves its success_count 0,  *)
(* and a step that turns a breaker CLOSED leaves its failure_count 0.      *)
C17_CountersResetOnEntry ==
  [][\A i \in 1..Len(breakers) :
       /\ (breakers[i].state # HALF_OPEN /\ breakers'[i].state = HALF_OPEN)
          => breakers'[i].success_count = 0
       /\ (breakers[i].state # CLOSED /\ breakers'[i].state = CLOSED)
          => breakers'[i].failure_count = 0]_vars

(* ... its second half alone. *)
FailureCountResetOnClosing ==
  [][\A i \in 1..Len(breakers) :
       (breakers[i].state # CLOSED /\ breakers'[i].state = CLOSED)
         => breakers'[i].failure_count = 0]_vars

(* C18: a step changes a breaker's state only from CLOSED to OPEN, from    *)
(* OPEN to HALF_OPEN, from HALF_OPEN to CLOSED or from HALF_OPEN to OPEN.  *)
StateChanges ==
  {<<CLOSED, OPEN>>, <<OPEN, HALF_OPEN>>, <<HALF_OPEN, CLOSED>>,
   <<HALF_OPEN, OPEN>>}

C18_OnlyFourStateChanges ==
  [][\A i \in 1..Len(breakers) :
       breakers'[i].state # breakers[i].state =>
         <<breakers[i].state, breakers'[i].state>> \in StateChanges]_vars

C18_Witness ==
  \E i \in 1..Len(breakers) :
    /\ breakers[i].config.failure_threshold = 1
    /\ breakers[i].config.success_threshold = 1
    /\ breakers[i].state = CLOSED
    /\ breakers[i].total_failures = 2
    /\ breakers[i].total_requests = 4
    /\ \E t \in Threads : thread[t].pc = "func"
                          /\ thread[t].circuit_breaker = i
                          /\ thread[t].admitted_in = Some(CLOSED)

(* C19: a success recorded on a CLOSED breaker leaves failure_count = 0    *)
(* and the breaker CLOSED; and the first failure recorded after a success  *)
(* on a CLOSED breaker leaves failure_count = 1, opening the breaker only  *)
(* if failure_threshold is 1.                                              *)
C19_ClosedSuccessResetsFailures ==
  [][\A t \in Threads :
       /\ (ReturnsStep(t) /\ BreakerOf(t).state = CLOSED)
          => /\ BreakerAfter(t).failure_count = 0
             /\ BreakerAfter(t).state = CLOSED
       /\ (RaisesStep(t) /\ BreakerOf(t).state = CLOSED
             /\ history[thread[t].circuit_breaker].successes_in_a_row >= 1)
          => /\ BreakerAfter(t).failure_count = 1
             /\ BreakerAfter(t).state = OPEN
                  <=> BreakerOf(t).config.failure_threshold = 1]_vars

C19_Witness ==
  \E i \in 1..Len(breakers) :
    /\ breakers[i].config.failure_threshold = 2
    /\ breakers[i].total_requests = 3
    /\ breakers[i].total_failures = 2
    /\ history[i].func_raised = 2
    /\ breakers[i].failure_count = 1
    /\ breakers[i].state = CLOSED
    /\ \A t \in Threads : thread[t].pc # "func"

(* C20: every invocation of call adds exactly 1 to total_requests, which   *)
(* nothing else changes; a rejected invocation leaves every other field of *)
(* the breaker as it was.                                                  *)
C20_EveryCallCountsOnce ==
  [][/\ \A t \in Threads :
          /\ CallStep(t) =>
               BreakerAfter(t).total_requests = BreakerOf(t).total_requests + 1
          /\ Rejected(t) =>
               BreakerAfter(t) =
                 [BreakerOf(t) EXCEPT !.total_requests = @ + 1]
     /\ \A i \in 1..Len(breakers) :
          breakers'[i].total_requests # breakers[i].total_requests =>
            \E t \in Threads : CallStep(t) /\ thread[t].circuit_breaker = i]_vars

C20_Witness ==
  \E t \in Threads :
    /\ thread[t].pc = "call"
    /\ thread[t].last_raised = Some(CircuitOpenError)
    /\ thread[t].raised_calls = 2
    /\ thread[t].invoked = 1
    /\ BreakerOf(t).state = OPEN
    /\ BreakerOf(t).total_requests = 2
    /\ BreakerOf(t).total_failures = 1
    /\ BreakerOf(t).failure_count = 1
    /\ BreakerOf(t).success_count = 0
    /\ BreakerOf(t).last_failure_time = Some(0)

(* C21: when func raises in a protected call, the breaker's total_failures *)
(* goes up by 1, its total_timeouts goes up by 1 if the error is a         *)
(* TimeoutError or a ConnectionError and is unchanged otherwise, its       *)
(* last_failure_time becomes the current time, and call raises to its      *)
(* caller the error func raised.                                           *)
FuncRaisedStep(t) ==
  /\ thread[t].pc = "func"
  /\ thread'[t] # thread[t]
  /\ HistoryAfter(t).func_raised =
       history[thread[t].circuit_breaker].func_raised + 1

C21_FailureCountedAndReraised ==
  [][\A t \in Threads :
       FuncRaisedStep(t) =>
         LET e == thread'[t].func_error[1] IN
         /\ BreakerAfter(t).total_failures = BreakerOf(t).total_failures + 1
         /\ BreakerAfter(t).total_timeouts =
              IF e.type \in {"TimeoutError", "ConnectionError"}
                THEN BreakerOf(t).total_timeouts + 1
                ELSE BreakerOf(t).total_timeouts
         /\ BreakerAfter(t).last_failure_time = Some(now)
         /\ thread'[t].last_raised = Some(e)]_vars

C21_Witness ==
  \E t \in Threads :
    /\ thread[t].func_error = Some(Exception("ValueError"))
    /\ thread[t].last_raised = Some(Exception("ValueError"))
    /\ now = 1
    /\ BreakerOf(t).last_failure_time = Some(1)
    /\ BreakerOf(t).total_failures = 2
    /\ BreakerOf(t).total_timeouts = 1

(* C22: execute has slept once after each failed attempt but the last and  *)
(* never after a success; without jitter the sleep after the attempt of    *)
(* index a is min(base_delay * backoff_factor^a, max_delay), with jitter   *)
(* it lies between half of that and that, so never above max_delay; and    *)
(* max_attempts = 3, base_delay = 1, backoff_factor = 2 without jitter     *)
(* sleeps 1 then 2.  Sleeps are in eighths.                                *)
NominalDelay(retry, a) ==
  LET d == retry.base_delay * Power(retry.backoff_factor, a) IN
  IF d > retry.max_delay THEN retry.max_delay ELSE d

C22_BackoffDelays ==
  retry_run # None =>
    LET retry == retry_run.retry
        delays == retry_run.delays
    IN /\ Len(delays) = retry_run.attempt
       /\ Len(delays) <= retry.max_attempts - 1
       /\ retry_run.pc = "raised" => Len(delays) = retry.max_attempts - 1
       /\ \A k \in 1..Len(delays) :
            /\ ~retry.jitter => delays[k] = 8 * NominalDelay(retry, k - 1)
            /\ retry.jitter =>
                 /\ 4 * NominalDelay(retry, k - 1) <= delays[k]
                 /\ delays[k] <= 8 * NominalDelay(retry, k - 1)
            /\ delays[k] <= 8 * retry.max_delay
       /\ (/\ retry_run.pc = "raised" /\ ~retry.jitter
           /\ retry.max_attempts = 3 /\ retry.base_delay = 1
           /\ retry.backoff_factor = 2 /\ retry.max_delay >= 2)
          => delays = <<8, 16>>

C22_Witness ==
  /\ retry_run # None
  /\ retry_run.pc = "raised"
  /\ retry_run.retry.jitter
  /\ retry_run.retry.max_attempts = 3
  /\ retry_run.retry.base_delay = 2
  /\ retry_run.retry.backoff_factor = 3
  /\ retry_run.retry.max_delay = 5
  /\ retry_run.delays = <<8, 35>>

(* C23: get_circuit_breaker for a name the registry knows, called with a   *)
(* config other than the breaker's, hands out the registered breaker and   *)
(* changes no breaker; and no step ever changes a breaker's config.        *)
Reconfigures(t) ==
  /\ thread[t].pc = "get_circuit_breaker"
  /\ thread'[t] # thread[t]
  /\ thread[t].recovery = None
  /\ circuit_breakers[thread[t].service_name] # 0
  /\ thread[t].circuit_config #
       Some(breakers[circuit_breakers[thread[t].service_name]].config)

C23_ExistingBreakerKeepsConfig ==
  [][/\ \A t \in Threads :
          Reconfigures(t) =>
            /\ thread'[t].pc = "call"
            /\ thread'[t].circuit_breaker =
                 circuit_breakers[thread[t].service_name]
            /\ breakers' = breakers
            /\ circuit_breakers' = circuit_breakers
     /\ \A i \in 1..Len(breakers) :
          breakers'[i].config = breakers[i].config]_vars

C23_Witness ==
  \E t \in Threads :
    /\ thread[t].pc = "call"
    /\ thread[t].protected_calls = 0
    /\ thread[t].circuit_config # None
    /\ thread[t].circuit_config # Some(BreakerOf(t).config)
    /\ BreakerOf(t).state = OPEN
    /\ BreakerOf(t).total_requests = 3

(* C24: recent_errors never holds more than 100 records; a record appended *)
(* to a history of 100 drops the first and moves every other one up by     *)
(* one place, and a record appended to a shorter history leaves the        *)
(* records it holds in place.                                              *)
C24_HistoryKeepsLast100 ==
  [][/\ Len(recent_errors') <= 100
     /\ recent_errors' # recent_errors =>
          LET n == Len(recent_errors) IN
          IF n = 100
            THEN /\ Len(recent_errors') = 100
                 /\ \A k \in 1..99 : recent_errors'[k] = recent_errors[k + 1]
                 /\ \E t \in Threads :
                      recent_errors'[100].service = thread[t].service_name
            ELSE /\ Len(recent_errors') = n + 1
                 /\ \A k \in 1..n : recent_errors'[k] = recent_errors[k]]_vars

C24_Witness ==
  /\ Len(recent_errors) = 100
  /\ error_counts["fpl_api"] + error_counts["understat"] = 102
  /\ recent_errors[97].service = "understat"
  /\ recent_errors[98].service = "fpl_api"
  /\ recent_errors[99].service = "understat"
  /\ recent_errors[100].service = "fpl_api"

(* The key a request is made under: the cache key the wrapper of           *)
(* cache_expensive_calculation computes, or the key given to               *)
(* get_cached_data.                                                        *)
KeyOf(request) ==
  IF request.cache = "session_state"
    THEN [cache |-> request.cache,
          session_key |-> cache_key(request.func, request.args, request.kwargs),
          key |-> ""]
    ELSE [cache |-> request.cache,
          session_key |-> cache_key("", <<>>, <<>>),
          key |-> request.key]

Requests == {j \in 1..Len(cache.log) : cache.log[j].op = "request"}

(* The requests made before the j-th event under the same key, and those   *)
(* of them that invoked the fetch function.                                *)
EarlierRequests(j) ==
  {i \in Requests : i < j /\ KeyOf(cache.log[i].request) = KeyOf(cache.log[j].request)}

EarlierFetches(j) == {i \in EarlierRequests(j) : cache.log[i].fetched}

Latest(is) == CHOOSE i \in is : \A k \in is : k <= i

ClearedBetween(i, j) ==
  \E c \in i..j : cache.log[c].op = "clear_all_caches"

(* C25: a request under a key invokes the fetch function if none was made  *)
(* under that key before; made less than ttl after the latest fetch under  *)
(* the key, with no clear_all_caches in between, it does not invoke the    *)
(* fetch function and returns the value then stored; made once ttl has     *)
(* elapsed since that fetch, it invokes the fetch function again.          *)
TtlHonoured(j) ==
  IF EarlierFetches(j) = {}
    THEN cache.log[j].fetched
    ELSE LET i == Latest(EarlierFetches(j)) IN
         IF cache.log[j].at - cache.log[i].at < cache.ttl
           THEN ClearedBetween(i, j) \/
                  (/\ ~cache.log[j].fetched
                   /\ cache.log[j].returned = cache.log[i].returned)
           ELSE cache.log[j].fetched

C25_FetchOncePerTtl ==
  cache # None => \A j \in Requests : TtlHonoured(j)

(* ... for the session cache alone. *)
SessionCacheFetchesOncePerTtl ==
  cache # None =>
    \A j \in Requests :
      cache.log[j].request.cache = "session_state" => TtlHonoured(j)

Clears == {c \in 1..Len(cache.log) : cache.log[c].op = "clear_all_caches"}

(* The request that immediately follows the c-th event fetches if its key  *)
(* was requested, and so cached, before.                                   *)
FetchedAfterClear(c, caches) ==
  (/\ c + 1 \in Requests
   /\ cache.log[c + 1].request.cache \in caches
   /\ EarlierRequests(c + 1) # {})
    => cache.log[c + 1].fetched

(* C26: a request that immediately follows clear_all_caches, for a key     *)
(* cached before the clear in either of the TTL caches, invokes the fetch  *)
(* function again.                                                         *)
C26_ClearAllForcesFetch ==
  cache # None =>
    \A c \in Clears : FetchedAfterClear(c, {"session_state", "cache_data"})

(* ... for the keys held by st.cache_data alone. *)
ClearAllForcesFetchOfCacheData ==
  cache # None => \A c \in Clears : FetchedAfterClear(c, {"cache_data"})

(* C27: cache_stats counts every request: hits is the number of requests   *)
(* served without fetching, misses the number of requests that fetched, so *)
(* hits + misses is the number of requests made.                           *)
C27_StatsCountEveryRequest ==
  cache # None =>
    /\ cache.cache_stats.hits =
         Cardinality({j \in Requests : ~cache.log[j].fetched})
    /\ cache.cache_stats.misses =
         Cardinality({j \in Requests : cache.log[j].fetched})
    /\ cache.cache_stats.hits + cache.cache_stats.misses =
         Cardinality(Requests)

(* clear_all_caches is what changes cache_stats: invalidations counts the  *)
(* clears, hits and misses stay 0.                                         *)
StatsCountOnlyInvalidations ==
  cache # None =>
    /\ cache.cache_stats.invalidations = Cardinality(Clears)
    /\ cache.cache_stats.hits = 0
    /\ cache.cache_stats.misses = 0

SessionRequests ==
  {j \in Requests : cache.log[j].request.cache = "session_state"}

(* C30: what a call of a function wrapped with cache_expensive_calculation *)
(* returns was computed by a call of the same function with the same       *)
(* positional and keyword arguments.                                       *)
C30_CachedResultOfSameCall ==
  cache # None =>
    \A j \in SessionRequests :
      LET request == cache.log[j].request
          computed_for == cache.log[j].returned.request
      IN /\ computed_for.func = request.func
         /\ computed_for.args = request.args
         /\ computed_for.kwargs = request.kwargs

(* What does hold: the result was computed by a call of the same function  *)
(* whose positional arguments without a __dict__ had the same str().       *)
CachedResultOfSameCacheKey ==
  cache # None =>
    \A j \in SessionRequests :
      LET request == cache.log[j].request
          computed_for == cache.log[j].returned.request
      IN cache_key(computed_for.func, computed_for.args, computed_for.kwargs)
           = cache_key(request.func, request.args, request.kwargs)

(* C28: a breaker that is OPEN or HALF_OPEN has failure_count at least     *)
(* failure_threshold and a last_failure_time, whatever the interleaving of *)
(* its callers.                                                            *)
C28_OpenHasFailuresAtThreshold ==
  \A i \in 1..Len(breakers) :
    breakers[i].state \in {OPEN, HALF_OPEN} =>
      /\ breakers[i].failure_count >= breakers[i].config.failure_threshold
      /\ breakers[i].last_failure_time # None

(* Two calls were admitted while CLOSED; one failed and opened the         *)
(* breaker, the other succeeded afterwards, the breaker being OPEN.        *)
C28_Witness ==
  \E i \in 1..Len(breakers) :
    /\ breakers[i].state = OPEN
    /\ breakers[i].total_requests = 2
    /\ breakers[i].total_failures = 1
    /\ breakers[i].failure_count = breakers[i].config.failure_threshold
    /\ history[i].successes_in_a_row = 1
    /\ \A t \in Threads : thread[t].pc # "func"

(* A failure recorded on a HALF_OPEN breaker opens it. *)
HalfOpenFailureReopens ==
  [][\A t \in Threads :
       (RaisesStep(t) /\ BreakerOf(t).state = HALF_OPEN)
         => BreakerAfter(t).state = OPEN]_vars

(* C29: a step increments a breaker's success_count, or closes the breaker *)
(* from HALF_OPEN, only when it is the successful return of a call that    *)
(* was admitted while the breaker was HALF_OPEN.                           *)
CountsSuccess(i) ==
  \/ breakers'[i].success_count > breakers[i].success_count
  \/ breakers[i].state = HALF_OPEN /\ breakers'[i].state = CLOSED

C29_OnlyHalfOpenCallsCount ==
  [][\A i \in 1..Len(breakers) :
       CountsSuccess(i) =>
         \E t \in Threads :
           /\ ReturnsStep(t)
           /\ thread[t].circuit_breaker = i
           /\ thread[t].admitted_in = Some(HALF_OPEN)]_vars

(* What does hold: success_count is incremented, and the breaker closed,   *)
(* only by a successful return that finds the breaker HALF_OPEN.           *)
OnlySuccessInHalfOpenCounts ==
  [][\A i \in 1..Len(breakers) :
       CountsSuccess(i) =>
         \E t \in Threads :
           /\ ReturnsStep(t)
           /\ thread[t].circuit_breaker = i
           /\ breakers[i].state = HALF_OPEN]_vars

====
